---- MODULE Spec2Model ----
(***************************************************************************)
(* A model of the link / note contract wrappers of crossbell.js and of the *)
(* link-type codec they use.                                               *)
(*                                                                         *)
(*   src/unnamed/part_003   LinkContract (viem edition)                    *)
(*   src/unnamed/part_004   LinkContract (ethers edition)                  *)
(*   src/src/contract/subcontracts/note.ts   NoteContract                  *)
(*                                                                         *)
(* One client runs one invocation at a time (single-threaded, cooperative).*)
(* An invocation suspends at its awaits; every action below is the code    *)
(* that runs between two awaits.                                           *)
(***************************************************************************)
EXTENDS Integers, Sequences, FiniteSets, TLC

(***************************************************************************)
(* Bounds of the model.                                                    *)
(***************************************************************************)
\* longest link-type string of the codec, in characters
MaxChars == 33
\* most trailing NUL characters a link-type string carries
MaxNuls == 1
\* most events in one receipt
MaxLogs == 2
\* most transactions one session submits
MaxTxs == 1
\* most character targets of one batch call
MaxTargets == 3

(***************************************************************************)
(* Program constants.                                                      *)
(***************************************************************************)
\* width of a bytes32 link type: pad(..., { dir: 'right' }) pads to 32 bytes
BYTES32 == 32

(***************************************************************************)
(* Strings and bytes.  A string is a sequence of code points, a byte       *)
(* string a sequence of 0..255.                                            *)
(***************************************************************************)
RECURSIVE Rep(_, _)
Rep(x, n) == IF n <= 0 THEN <<>> ELSE <<x>> \o Rep(x, n - 1)

\* code points used: NUL, "a" (one byte in UTF-8), e-acute (two bytes)
Chars == {97, 233}

\* the link-type strings the codec is applied to
Strings ==
  { Rep(c, n) \o Rep(0, z) : c \in Chars, n \in 0..MaxChars, z \in 0..MaxNuls }

\* UTF-8 of one code point below U+0800
Utf8OfChar(c) ==
  IF c < 128 THEN <<c>> ELSE <<192 + (c \div 64), 128 + (c % 64)>>

\* TextEncoder.encode / ethers toUtf8Bytes
RECURSIVE toUtf8Bytes(_)
toUtf8Bytes(s) ==
  IF s = <<>> THEN <<>> ELSE Utf8OfChar(Head(s)) \o toUtf8Bytes(Tail(s))

\* ethers toUtf8String: strict decoding, an ill-formed sequence is an error
RECURSIVE toUtf8String(_)
toUtf8String(b) ==
  IF b = <<>> THEN [ok |-> TRUE, str |-> <<>>]
  ELSE IF b[1] < 128
    THEN LET r == toUtf8String(Tail(b))
         IN  [ok |-> r.ok, str |-> IF r.ok THEN <<b[1]>> \o r.str ELSE <<>>]
  ELSE IF b[1] \in 192..223 /\ Len(b) >= 2 /\ b[2] \in 128..191
    THEN LET r == toUtf8String(Tail(Tail(b)))
         IN  [ok |-> r.ok,
              str |-> IF r.ok
                      THEN <<(b[1] - 192) * 64 + (b[2] - 128)>> \o r.str
                      ELSE <<>>]
  ELSE [ok |-> FALSE, str |-> <<>>]

(***************************************************************************)
(* The link-type codec.                                                    *)
(***************************************************************************)
\* a pad that cuts an over-long value to the width instead of throwing
padRightToHex_truncating(linkType) ==
  LET bytes == toUtf8Bytes(linkType)
  IN  [ok |-> TRUE, bytes |-> SubSeq(bytes \o Rep(0, BYTES32), 1, BYTES32)]

\* viem: pad(toHex(linkType), { dir: 'right' })
padRightToHex(linkType) ==
  LET bytes == toUtf8Bytes(linkType)
  IN  IF Len(bytes) > BYTES32
      THEN [ok |-> FALSE, bytes |-> <<>>]
      ELSE [ok |-> TRUE, bytes |-> bytes \o Rep(0, BYTES32 - Len(bytes))]

\* ethers.utils.formatBytes32String(linkType)
formatBytes32String(linkType) ==
  LET bytes == toUtf8Bytes(linkType)
  IN  IF Len(bytes) > BYTES32 - 1
      THEN [ok |-> FALSE, bytes |-> <<>>]
      ELSE [ok |-> TRUE, bytes |-> SubSeq(bytes \o Rep(0, BYTES32), 1, BYTES32)]

\* the length the loop of parseBytes32String stops at
RECURSIVE StripZeros(_, _)
StripZeros(data, length) ==
  IF length >= 1 /\ data[length] = 0
  THEN StripZeros(data, length - 1)
  ELSE length

\* a parseBytes32String that drops the terminator only, not the padding
parseBytes32String_noStrip(data) ==
  IF Len(data) # BYTES32 THEN [ok |-> FALSE, str |-> <<>>]
  ELSE IF data[BYTES32] # 0 THEN [ok |-> FALSE, str |-> <<>>]
  ELSE toUtf8String(SubSeq(data, 1, BYTES32 - 1))

\* ethers.utils.parseBytes32String(data)
parseBytes32String(data) ==
  IF Len(data) # BYTES32 THEN [ok |-> FALSE, str |-> <<>>]
  ELSE IF data[BYTES32] # 0 THEN [ok |-> FALSE, str |-> <<>>]
  ELSE toUtf8String(SubSeq(data, 1, StripZeros(data, BYTES32 - 1)))

(***************************************************************************)
(* Events and receipts.                                                    *)
(***************************************************************************)
Event(name, id) == [name |-> name, id |-> id]

NoLog == Event("", 0)

\* what parseLog hands back: an error kind, or the decoded log
Parsed(err, log) == [err |-> err, log |-> log]

\* utils parseLog(logs, filterTopic, { throwOnMultipleLogsFound = true })
parseLog(logs, filterTopic, throwOnMultipleLogsFound) ==
  LET targetLogs == SelectSeq(logs, LAMBDA l : l.name = filterTopic)
  IN  IF Len(targetLogs) = 0 THEN Parsed("EventNotFound", NoLog)
      ELSE IF throwOnMultipleLogsFound /\ Len(targetLogs) > 1
        THEN Parsed("AmbiguousEvent", NoLog)
      ELSE Parsed("none", targetLogs[1])

\* a well-formed address and a malformed one
Addresses == {"0x00000000000000000000000000000000000a11ce", "0xa11ce"}

\* the toAddresses lists of a batch call
AddressLists ==
  { <<>>, <<"0x00000000000000000000000000000000000a11ce">>, <<"0xa11ce">>,
    <<"0x00000000000000000000000000000000000a11ce", "0xa11ce">> }

\* utils validateAddress(address): well-formedness of an address

validateAddress(address) ==
  address = "0x00000000000000000000000000000000000a11ce"

(***************************************************************************)
(* The operations.  Each is the shape of its method: whether the           *)
(* autoSwitchMainnet decorator wraps it, whether it validates addresses,   *)
(* whether it encodes a link type, which events it parses from the receipt *)
(* and how strictly, and whether its result carries transactionHash.       *)
(***************************************************************************)
Write(name, guarded, validates, encodes, parses, strict) ==
  [name |-> name, throwOnMultipleLogsFound |-> strict, guarded |-> guarded,
   validates |-> validates, encodes |-> encodes, parses |-> parses,
   kind |-> "write", returnsHash |-> TRUE]

Read(name, parses) ==
  [name |-> name, throwOnMultipleLogsFound |-> TRUE, guarded |-> FALSE,
   validates |-> FALSE, encodes |-> FALSE, parses |-> parses,
   kind |-> "read", returnsHash |-> FALSE]

\* linkCharacter looking for the event of another entry point
linkCharacter_wrongEvent ==
  Write("linkCharacter", TRUE, FALSE, TRUE, <<"LinkAddress">>, TRUE)

linkCharacter ==
  Write("linkCharacter", TRUE, FALSE, TRUE, <<"LinkCharacter">>, TRUE)

\* linkCharactersInBatch without throwOnMultipleLogsFound: false
linkCharactersInBatch_strict ==
  Write("linkCharactersInBatch", TRUE, TRUE, TRUE, <<"LinkCharacter">>, TRUE)

linkCharactersInBatch ==
  Write("linkCharactersInBatch", TRUE, TRUE, TRUE, <<"LinkCharacter">>, FALSE)

\* getLinklistIdByTransaction taking the first of several logs
getLinklistIdByTransaction_lenient ==
  [Read("getLinklistIdByTransaction", <<"LinkCharacter">>)
     EXCEPT !.throwOnMultipleLogsFound = FALSE]

\* a lookup that takes the id of the Transfer event
getLinklistIdByTransaction_transfer ==
  Read("getLinklistIdByTransaction", <<"Transfer">>)

getLinklistIdByTransaction ==
  Read("getLinklistIdByTransaction", <<"LinkCharacter">>)

\* a variant that takes toCharacterId and linklistId from the wrong events
createThenLinkCharacter_swapped ==
  Write("createThenLinkCharacter", TRUE, TRUE, TRUE,
        <<"LinkCharacter", "CharacterCreated">>, TRUE)

createThenLinkCharacter ==
  Write("createThenLinkCharacter", TRUE, TRUE, TRUE,
        <<"CharacterCreated", "LinkCharacter">>, TRUE)

\* unlinkCharacter returning no transactionHash
unlinkCharacter_noHash ==
  [Write("unlinkCharacter", TRUE, FALSE, TRUE, <<>>, TRUE)
     EXCEPT !.returnsHash = FALSE]

unlinkCharacter == Write("unlinkCharacter", TRUE, FALSE, TRUE, <<>>, TRUE)

getLinkingCharacterIds == Read("getLinkingCharacterIds", <<>>)

getLinkingCharacters == Read("getLinkingCharacters", <<>>)

linkAddress == Write("linkAddress", TRUE, FALSE, TRUE, <<"LinkAddress">>, TRUE)

unlinkAddress == Write("unlinkAddress", TRUE, FALSE, TRUE, <<>>, TRUE)

linkAnyUri == Write("linkAnyUri", TRUE, FALSE, TRUE, <<"LinkAnyUri">>, TRUE)

unlinkAnyUri == Write("unlinkAnyUri", TRUE, FALSE, TRUE, <<>>, TRUE)

linkErc721 == Write("linkErc721", TRUE, FALSE, TRUE, <<"LinkAnyUri">>, TRUE)

unlinkErc721 == Write("unlinkErc721", TRUE, FALSE, TRUE, <<>>, TRUE)

linkNote == Write("linkNote", TRUE, FALSE, TRUE, <<"LinkNote">>, TRUE)

unlinkNote == Write("unlinkNote", TRUE, FALSE, TRUE, <<>>, TRUE)

linkLinklist == Write("linkLinklist", TRUE, FALSE, TRUE, <<"LinkNote">>, TRUE)

unlinkLinklist == Write("unlinkLinklist", TRUE, FALSE, TRUE, <<>>, TRUE)

setLinklistUri == Write("setLinklistUri", FALSE, FALSE, FALSE, <<>>, TRUE)

getLinklistUri == Read("getLinklistUri", <<>>)

postNote == Write("postNote", FALSE, FALSE, FALSE, <<"PostNote">>, TRUE)

getNote == Read("getNote", <<>>)

mintNote == Write("mintNote", FALSE, FALSE, FALSE, <<>>, TRUE)

Ops ==
  { linkCharacter, linkCharactersInBatch, getLinklistIdByTransaction,
    createThenLinkCharacter, unlinkCharacter, getLinkingCharacterIds,
    getLinkingCharacters, linkAddress, unlinkAddress, linkAnyUri,
    unlinkAnyUri, linkErc721, unlinkErc721, linkNote, unlinkNote,
    linkLinklist, unlinkLinklist, setLinklistUri, getLinklistUri,
    postNote, getNote, mintNote }

OpOf(name) == CHOOSE o \in Ops : o.name = name

(***************************************************************************)
(* The chain client and the contract, as the wrappers see them.            *)
(***************************************************************************)
Networks == {"crossbell", "other"}

\* the network the contract is deployed on
DeployNetwork == "crossbell"

\* the events a receipt of each entry point can hold: the events of the
\* entry point, and one of another kind
ContractEvents(name) ==
  CASE name = "linkCharacter" ->
         { Event("LinkCharacter", 7), Event("Transfer", 0) }
    [] name = "linkCharactersInBatch" ->
         { Event("LinkCharacter", 7), Event("LinkCharacter", 9) }
    [] name = "createThenLinkCharacter" ->
         { Event("CharacterCreated", 9), Event("LinkCharacter", 7) }
    [] name = "linkAddress" -> { Event("LinkAddress", 7) }
    [] name = "linkAnyUri" -> { Event("LinkAnyUri", 7) }
    [] name = "linkErc721" ->
         { Event("LinkERC721", 7), Event("LinkAnyUri", 9) }
    [] name = "linkNote" -> { Event("LinkNote", 7) }
    [] name = "linkLinklist" ->
         { Event("LinkLinklist", 7), Event("LinkNote", 9) }
    [] name = "unlinkCharacter" ->
         { Event("UnlinkCharacter", 7), Event("Transfer", 0) }
    [] name = "unlinkAddress" -> { Event("UnlinkAddress", 7) }
    [] name = "unlinkAnyUri" -> { Event("UnlinkAnyUri", 7) }
    [] name = "unlinkErc721" -> { Event("UnlinkERC721", 7) }
    [] name = "unlinkNote" -> { Event("UnlinkNote", 7) }
    [] name = "unlinkLinklist" -> { Event("UnlinkLinklist", 7) }
    [] name = "postNote" -> { Event("PostNote", 7) }
    [] name = "mintNote" -> { Event("MintNote", 7) }
    [] OTHER -> { Event("Transfer", 0) }

SeqsUpTo(S, n) == UNION { [1..k -> S] : k \in 0..n }

LogsOf(name) == SeqsUpTo(ContractEvents(name), MaxLogs)

Receipt(hash, logs) == [logs |-> logs, transactionHash |-> hash]

(***************************************************************************)
(* The content store (Ipfs).  A URI is its scheme and what follows it; the *)
(* empty string is the URI with neither.  The current edition             *)
(* (src/ipfs/index.ts) retries uploads and checks ipfs URLs, the legacy    *)
(* edition does neither.                                                   *)
(***************************************************************************)
Uri(scheme, path) == [scheme |-> scheme, path |-> path]

EmptyUri == Uri("", "")

IpfsUris ==
  { EmptyUri, Uri("ipfs", "QmTMD6/1.json"), Uri("ipfs", "?"),
    Uri("https", "example.com/1.json") }

\* uri.startsWith('ipfs://') / isIpfsUrl(uri)
isIpfsUrl(uri) == uri.scheme = "ipfs"

\* isIpfs.url(uri): the URL names content
isIpfs_url(uri) == uri.path = "QmTMD6/1.json"

\* the retries option of retry()
RETRIES == 3

Editions == {"current", "legacy"}

\* the attempts one uploadJson call may make
MaxAttempts(edition) == IF edition = "current" THEN RETRIES + 1 ELSE 1

\* the store's answer to an upload: no url, or a url
IpfsResponse(hasUrl, url) == [hasUrl |-> hasUrl, url |-> url]

IpfsResponses ==
  { IpfsResponse(FALSE, EmptyUri),
    IpfsResponse(TRUE, Uri("ipfs", "QmTMD6/1.json")),
    IpfsResponse(TRUE, Uri("https", "example.com/1.json")) }

\* the value an Ipfs call settles with: {uri, metadata} (metadata is
\* "undefined" or "object")
IpfsResult(uri, metadata) == [uri |-> uri, metadata |-> metadata]

NoIpfsResult == IpfsResult(EmptyUri, "undefined")

\* BaseMetadata['type'], and the type field of a metadata object ("absent"
\* when the object has none)
MetadataTypes == {"note", "character"}

\* an Ipfs call: the entry point, its arguments (a string or a metadata
\* object, the type asked for, the flag), the type field of the object as
\* it was passed and as it is now, the type in the JSON last uploaded, the
\* metadataToUri calls and the network calls made so far, and the outcome
IpfsIdle ==
  [uri |-> EmptyUri, edition |-> "current", pc |-> "idle", op |-> "none",
   isString |-> FALSE, retrieveMetadataIfNeeded |-> FALSE, uploads |-> 0,
   fetches |-> 0, badResponse |-> FALSE, logged |-> FALSE,
   result |-> NoIpfsResult, error |-> "none", type |-> "note",
   inputType |-> "absent", metadataType |-> "absent", body |-> "none",
   publishes |-> 0]

IpfsOps == {"uploadJson", "metadataToUri", "uriToMetadata", "parseMetadataOrUri"}

(***************************************************************************)
(* The contract behind the calls, for the properties about what it stores: *)
(* the links of each (character, link type) are kept in one                *)
(* linklist, whose id is allotted when the first of them is made (its      *)
(* token is minted, hence a Transfer event), and every link emits the      *)
(* event of its kind with that id.                                         *)
(***************************************************************************)
MaxChainTxs == 2

\* the ascending sequence of a set of numbers
RECURSIVE SortedSeq(_)
SortedSeq(S) ==
  IF S = {} THEN <<>>
  ELSE LET m == CHOOSE x \in S : \A y \in S : x <= y
       IN  <<m>> \o SortedSeq(S \ {m})

\* what is remembered of a transaction: the method, what it was sent,
\* whether the call returned, and the linklist id it returned
Returned(op, ok, fromCharacterId, linkType, toCharacterIds, linklistId) ==
  [ok |-> ok, linkType |-> linkType, op |-> op,
   fromCharacterId |-> fromCharacterId, toCharacterIds |-> toCharacterIds,
   linklistId |-> linklistId]

\* the outcome of the first lookup of a hash, and whether the hash was
\* looked up again
Outcome(pc, ids, error, again) ==
  [pc |-> pc, error |-> error, ids |-> ids, again |-> again]

NotSeen == Outcome("none", <<>>, "none", FALSE)

\* links: the linked (from, link type, to); linklists: the (from, link
\* type) of each linklist id; characters: the characters created;
\* returned, seen: per transaction, what its call returned and what the
\* first lookup of its hash gave
NoChain ==
  [links |-> {}, linklists |-> <<>>, characters |-> 0, returned |-> <<>>,
   seen |-> <<>>]

\* the linklist id of (from, link type): the one it has, or the next
LinklistIdOf_perCall(linklists, fromCharacterId, linkType) ==
  Len(linklists) + 1

LinklistIdOf(linklists, fromCharacterId, linkType) ==
  IF \E i \in 1..Len(linklists) : linklists[i] = <<fromCharacterId, linkType>>
  THEN CHOOSE i \in 1..Len(linklists) :
         linklists[i] = <<fromCharacterId, linkType>>
  ELSE Len(linklists) + 1

\* the event each linking method makes the contract emit
LinkEventOf(op) ==
  CASE op \in {"linkCharacter", "linkCharactersInBatch",
               "createThenLinkCharacter"} -> "LinkCharacter"
    [] op = "linkAddress" -> "LinkAddress"
    [] op = "linkAnyUri" -> "LinkAnyUri"
    [] op = "linkErc721" -> "LinkERC721"
    [] op = "linkNote" -> "LinkNote"
    [] op = "linkLinklist" -> "LinkLinklist"
    [] OTHER -> "UnlinkCharacter"

\* the first id given to a character created by createThenLinkCharacter
FirstCreated == 10

\* the contract runs a transaction: its state afterwards and the events
\* it emits
Execute(ch, op, sent) ==
  LET key == <<sent.fromCharacterId, sent.linkType>>
      id == LinklistIdOf(ch.linklists, sent.fromCharacterId, sent.linkType)
      created == FirstCreated + ch.characters
      targets == IF op = "createThenLinkCharacter" THEN <<created>>
                 ELSE sent.toCharacterIds
      tos == { targets[i] : i \in 1..Len(targets) }
      minted == id > Len(ch.linklists)
      mint == IF minted THEN <<Event("Transfer", 0)>> ELSE <<>>
  IN  IF op = "unlinkCharacter"
      THEN [logs |-> <<Event("UnlinkCharacter", id)>>,
            chain |-> [ch EXCEPT
                         !.links = @ \ { <<key[1], key[2], to>> : to \in tos }]]
      ELSE IF op \in {"linkCharacter", "linkCharactersInBatch",
                      "createThenLinkCharacter"}
      THEN IF targets = <<>>
           THEN [logs |-> <<>>, chain |-> ch]
           ELSE [logs |->
                   (IF op = "createThenLinkCharacter"
                    THEN <<Event("CharacterCreated", created)>> ELSE <<>>)
                   \o mint
                   \o [i \in 1..Len(targets) |-> Event("LinkCharacter", id)],
                 chain |->
                   [ch EXCEPT
                      !.links = @ \cup { <<key[1], key[2], to>> : to \in tos },
                      !.linklists = IF minted THEN Append(@, key) ELSE @,
                      !.characters = IF op = "createThenLinkCharacter"
                                     THEN @ + 1 ELSE @]]
      ELSE [logs |-> mint \o <<Event(LinkEventOf(op), id)>>,
            chain |-> [ch EXCEPT
                         !.linklists = IF minted THEN Append(@, key) ELSE @]]

\* the characters linked from a character with a link type, as the
\* periphery contract lists them
LinkingCharacterIds(ch, fromCharacterId, linkType) ==
  SortedSeq({ l[3] : l \in { k \in ch.links : /\ k[1] = fromCharacterId
                                               /\ k[2] = linkType } })

(***************************************************************************)
(* State.                                                                  *)
(***************************************************************************)
VARIABLES
  activeNetwork,  \* the network the signer is on
  receipts,       \* the confirmed transactions; the hash is the index
  call,           \* the invocation in progress
  codec,          \* the link-type codec call in progress
  ipfs,           \* the Ipfs call in progress
  chain           \* the contract's state and what its callers were told

vars == <<activeNetwork, receipts, call, codec, ipfs, chain>>

\* the arguments of an invocation
Args(fromCharacterId, linkType, toCharacterIds, toAddresses, hasData, data, hash) ==
  [linkType |-> linkType, data |-> data, hash |-> hash,
   fromCharacterId |-> fromCharacterId, toCharacterIds |-> toCharacterIds,
   toAddresses |-> toAddresses, hasData |-> hasData]

NoArgs == Args(0, <<>>, <<>>, <<>>, FALSE, <<>>, 0)

\* what is sent to the contract
Sent(fromCharacterId, linkType, toCharacterIds, toAddresses, data) ==
  [linkType |-> linkType, data |-> data,
   fromCharacterId |-> fromCharacterId, toCharacterIds |-> toCharacterIds,
   toAddresses |-> toAddresses]

NotSent == Sent(0, <<>>, <<>>, <<>>, <<>>)

\* Result<T, HasTxHash>: data (undefined, or ids and a uri), and
\* transactionHash when hasHash
Result(undefined, ids, uri, hasHash, transactionHash) ==
  [transactionHash |-> transactionHash, uri |-> uri, ids |-> ids,
   undefined |-> undefined, hasHash |-> hasHash]

NoResult == Result(TRUE, <<>>, "", FALSE, 0)

\* an invocation: the method, its arguments, where it stands, what it
\* sent (contentUri is the content uri handed to contract.postNote), the
\* calls it made and its outcome; for getLinkingCharacters the ids the
\* contract answered with, the values array of Promise.all (0 where a read
\* has not settled) and the order in which the reads settled
Idle ==
  [hash |-> 0, pc |-> "idle", op |-> "none", result |-> NoResult,
   error |-> "none", sent |-> NotSent, args |-> NoArgs, guardRan |-> FALSE,
   chainCalls |-> 0, writes |-> 0, contentUri |-> EmptyUri,
   linked |-> <<>>, settled |-> <<>>, gathered |-> <<>>]

CodecIdle ==
  [ok |-> FALSE, str |-> <<>>, bytes |-> <<>>, pc |-> "idle",
   lib |-> "viem", decoded |-> [ok |-> FALSE, str |-> <<>>]]

Init ==
  /\ activeNetwork \in Networks
  /\ receipts = <<>>
  /\ call = Idle
  /\ codec = CodecIdle
  /\ ipfs = IpfsIdle
  /\ chain = NoChain

(***************************************************************************)
(* Inputs.                                                                 *)
(***************************************************************************)
\* "follow", and a link type one byte over the width
LinkTypes == { <<102, 111, 108, 108, 111, 119>>, Rep(97, BYTES32 + 1) }

\* link types around the width, of one-byte and of two-byte characters
BoundaryLinkTypes ==
  LinkTypes \cup { Rep(97, BYTES32), Rep(233, BYTES32 \div 2),
                   Rep(233, BYTES32 \div 2 + 1) }

NIL_ADDRESS == "0x0000000000000000000000000000000000000000"

\* the arguments an operation is invoked with
ArgsOf(o) ==
  CASE o.name = "linkCharactersInBatch" ->
         { Args(1, lt, [i \in 1..n |-> i + 1], as, FALSE, <<>>, 0) :
             lt \in LinkTypes, n \in 0..MaxTargets,
             as \in AddressLists }
         \cup
         { Args(1, lt, [i \in 1..n |-> i + 1], as, TRUE, Rep("0x01", m), 0) :
             lt \in LinkTypes, n \in 0..MaxTargets,
             as \in AddressLists, m \in 0..MaxTargets }
    [] o.name = "createThenLinkCharacter" ->
         { Args(1, lt, <<>>, <<a>>, FALSE, <<>>, 0) :
             lt \in LinkTypes, a \in Addresses }
    [] o.name = "getLinklistIdByTransaction" ->
         { Args(0, <<>>, <<>>, <<>>, FALSE, <<>>, h) :
             h \in 1..(Len(receipts) + 1) }
    [] o.name = "linkCharacter" ->
         { Args(1, lt, <<>>, <<>>, FALSE, <<>>, 0) : lt \in BoundaryLinkTypes }
    [] OTHER ->
         { Args(1, lt, <<>>, <<>>, FALSE, <<>>, 0) :
             lt \in IF o.encodes THEN LinkTypes ELSE {<<>>} }

\* the lists of linked character ids the contract can answer with
LinkingIds == { <<>>, <<2>>, <<2, 3>> }

\* the content uris the contract can hold
Uris == { "", "ipfs://QmTMD6sLA7M4iegKDhbdMPBZ4HLi5fjW27w2J16gqc5Cb7/1.json" }

\* the linkItemType values a note can hold: none, "Note", and a bytes32
\* without a terminator
LinkItemTypes ==
  { formatBytes32String(<<>>).bytes,
    formatBytes32String(<<78, 111, 116, 101>>).bytes,
    Rep(97, BYTES32) }

(***************************************************************************)
(* Steps of an invocation.                                                 *)
(***************************************************************************)
\* the invocation rejects with an error
Fail(c, err) == [c EXCEPT !.pc = "failed", !.error = err]

\* a method is called; a decorated method enters the network guard first
Invoke(o, a) ==
  /\ call.pc = "idle"
  /\ codec.pc = "idle"
  /\ o.kind = "write" => Len(receipts) < MaxTxs
  /\ call' = [Idle EXCEPT !.op = o.name, !.args = a,
                          !.pc = IF o.guarded THEN "guard" ELSE "body"]
  /\ UNCHANGED <<activeNetwork, receipts, codec, ipfs, chain>>

\* autoSwitchMainnet: compare the active network with the deployment
\* network, ask for a switch when they differ
GuardCheck ==
  /\ call.pc = "guard"
  /\ call' = [call EXCEPT !.guardRan = TRUE,
                          !.chainCalls = @ + 1,
                          !.pc = IF activeNetwork = DeployNetwork
                                 THEN "body" ELSE "switching"]
  /\ UNCHANGED <<activeNetwork, receipts, codec, ipfs, chain>>

\* the signer answers the switch request
SwitchResult(ok) ==
  /\ call.pc = "switching"
  /\ IF ok
     THEN /\ activeNetwork' = DeployNetwork
          /\ call' = [call EXCEPT !.chainCalls = @ + 1, !.pc = "body"]
     ELSE /\ activeNetwork' = activeNetwork
          /\ call' = Fail([call EXCEPT !.chainCalls = @ + 1], "WrongNetwork")
  /\ UNCHANGED <<receipts, codec, ipfs, chain>>

\* a default with one nil entry per address instead of per character id
BatchData_perAddress(a) ==
  IF a.hasData THEN a.data
  ELSE [i \in 1..Len(a.toAddresses) |-> NIL_ADDRESS]

\* data ?? toCharacterIds.map(() => NIL_ADDRESS)
BatchData(a) ==
  IF a.hasData THEN a.data
  ELSE [i \in 1..Len(a.toCharacterIds) |-> NIL_ADDRESS]

\* the body of a mutating method up to its first await: validation, the
\* encoding of the link type, the write call
Submit ==
  /\ call.pc = "body"
  /\ OpOf(call.op).kind = "write"
  /\ LET o == OpOf(call.op)
         a == call.args
         linkType == padRightToHex(a.linkType)
     IN  IF o.validates
            /\ \E i \in 1..Len(a.toAddresses) : ~validateAddress(a.toAddresses[i])
         THEN call' = Fail(call, "InvalidAddress")
         ELSE IF o.encodes /\ ~linkType.ok
         THEN call' = Fail(call, "ValueTooLong")
         ELSE call' = [call EXCEPT
                         !.pc = "signing",
                         !.writes = @ + 1,
                         !.chainCalls = @ + 1,
                         !.sent = Sent(a.fromCharacterId,
                                       IF o.encodes THEN linkType.bytes ELSE <<>>,
                                       a.toCharacterIds, a.toAddresses,
                                       BatchData(a))]
  /\ UNCHANGED <<activeNetwork, receipts, codec, ipfs, chain>>

\* a write that is tried again when the signer declines
SignerResult_retry(accepted) ==
  /\ call.pc = "signing"
  /\ call' = IF accepted
             THEN [call EXCEPT !.pc = "waiting", !.hash = Len(receipts) + 1,
                               !.chainCalls = @ + 1]
             ELSE IF call.writes < 2 THEN [call EXCEPT !.pc = "body"]
             ELSE Fail(call, "SubmissionRejected")
  /\ UNCHANGED <<activeNetwork, receipts, codec, ipfs, chain>>

\* the signer signs and the transaction is sent, or the signer declines
SignerResult(accepted) ==
  /\ call.pc = "signing"
  /\ call' = IF accepted
             THEN [call EXCEPT !.pc = "waiting", !.hash = Len(receipts) + 1,
                               !.chainCalls = @ + 1]
             ELSE Fail(call, "SubmissionRejected")
  /\ UNCHANGED <<activeNetwork, receipts, codec, ipfs, chain>>

\* the first error of the parseLog calls, in call order
FirstError(ps) ==
  IF \A i \in 1..Len(ps) : ps[i].err = "none" THEN "none"
  ELSE ps[CHOOSE i \in 1..Len(ps) :
            /\ ps[i].err # "none"
            /\ \A j \in 1..(i - 1) : ps[j].err = "none"].err

\* from the receipt to the result: the parseLog calls of the method and the
\* object it returns
Settle(c, receipt) ==
  LET o == OpOf(c.op)
      ps == [i \in 1..Len(o.parses) |->
               parseLog(receipt.logs, o.parses[i], o.throwOnMultipleLogsFound)]
      err == FirstError(ps)
  IN  IF err # "none" THEN Fail(c, err)
      ELSE [c EXCEPT
              !.pc = "done",
              !.result = Result(o.parses = <<>>,
                                [i \in 1..Len(ps) |-> ps[i].log.id],
                                "",
                                o.returnsHash,
                                IF o.returnsHash THEN receipt.transactionHash
                                ELSE 0)]

\* waitForTransactionReceipt resolves: the method parses and returns
Confirm(logs) ==
  /\ call.pc = "waiting"
  /\ LET receipt == Receipt(call.hash, logs)
     IN  /\ receipts' = Append(receipts, receipt)
         /\ call' = Settle(call, receipt)
  /\ UNCHANGED <<activeNetwork, codec, ipfs, chain>>

\* a wait whose rejection is wrapped in an error of the wrapper's own
WaitFails_wrapped(err) ==
  /\ call.pc = "waiting"
  /\ call' = Fail(call, "TransactionFailed")
  /\ UNCHANGED <<activeNetwork, receipts, codec, ipfs, chain>>

\* waitForTransactionReceipt rejects
WaitFails(err) ==
  /\ call.pc = "waiting"
  /\ call' = Fail(call, err)
  /\ UNCHANGED <<activeNetwork, receipts, codec, ipfs, chain>>

\* a read method calls the chain client
ReadCall ==
  /\ call.pc = "body"
  /\ OpOf(call.op).kind = "read"
  /\ call' = [call EXCEPT !.pc = "reading", !.chainCalls = @ + 1]
  /\ UNCHANGED <<activeNetwork, receipts, codec, ipfs, chain>>

\* getTransactionReceipt resolves
ReadReceipt ==
  /\ call.pc = "reading"
  /\ call.op = "getLinklistIdByTransaction"
  /\ call' = IF call.args.hash \in 1..Len(receipts)
             THEN Settle(call, receipts[call.args.hash])
             ELSE Fail(call, "ReceiptNotFound")
  /\ UNCHANGED <<activeNetwork, receipts, codec, ipfs, chain>>

\* getLinkingCharacterIds resolves
ReadLinkingIds(ids) ==
  /\ call.pc = "reading"
  /\ call.op \in {"getLinkingCharacterIds", "getLinkingCharacters"}
  /\ call' = IF call.op = "getLinkingCharacterIds"
             THEN [call EXCEPT !.pc = "done",
                               !.result = Result(FALSE, ids, "", FALSE, 0)]
             ELSE [call EXCEPT !.pc = "gathering",
                               !.chainCalls = @ + Len(ids),
                               !.result = Result(FALSE, ids, "", FALSE, 0),
                               !.linked = ids,
                               !.gathered = [i \in 1..Len(ids) |-> 0]]
  /\ UNCHANGED <<activeNetwork, receipts, codec, ipfs, chain>>

\* Promise.all over character.get settles
Gathered(ok) ==
  /\ call.pc = "gathering"
  /\ call' = IF ok THEN [call EXCEPT !.pc = "done"]
             ELSE Fail([call EXCEPT !.result = NoResult], "ReadFailed")
  /\ UNCHANGED <<activeNetwork, receipts, codec, ipfs, chain>>

\* the data character.get answers with for a character id
CharacterOf(id) == 100 + id

\* a Promise.all that collects the values in the order the reads settle
CharacterRead_inSettlingOrder(i, ok) ==
  /\ call.pc = "gathering"
  /\ i \in 1..Len(call.linked)
  /\ \A j \in 1..Len(call.settled) : call.settled[j] # i
  /\ call' = IF ok
             THEN [call EXCEPT
                     !.settled = Append(@, i),
                     !.gathered[Len(call.settled) + 1] =
                        CharacterOf(call.linked[i])]
             ELSE Fail([call EXCEPT !.result = NoResult], "ReadFailed")
  /\ UNCHANGED <<activeNetwork, receipts, codec, ipfs, chain>>

\* one of the character.get reads settles: Promise.all keeps its value at
\* the index of its id, or rejects with its error
CharacterRead(i, ok) ==
  /\ call.pc = "gathering"
  /\ i \in 1..Len(call.linked)
  /\ \A j \in 1..Len(call.settled) : call.settled[j] # i
  /\ call' = IF ok
             THEN [call EXCEPT
                     !.settled = Append(@, i),
                     !.gathered[i] = CharacterOf(call.linked[i])]
             ELSE Fail([call EXCEPT !.result = NoResult], "ReadFailed")
  /\ UNCHANGED <<activeNetwork, receipts, codec, ipfs, chain>>

\* every read has settled: Promise.all resolves and the data of the
\* characters is returned
GatherDone ==
  /\ call.pc = "gathering"
  /\ Len(call.settled) = Len(call.linked)
  /\ call' = [call EXCEPT
               !.pc = "done",
               !.result = Result(FALSE, call.gathered, "", FALSE, 0)]
  /\ UNCHANGED <<activeNetwork, receipts, codec, ipfs, chain>>

\* getLinklistUri resolves
ReadUri(uri) ==
  /\ call.pc = "reading"
  /\ call.op = "getLinklistUri"
  /\ call' = [call EXCEPT !.pc = "done",
                          !.result = Result(FALSE, <<>>, uri, FALSE, 0)]
  /\ UNCHANGED <<activeNetwork, receipts, codec, ipfs, chain>>

\* contract.getNote resolves: the link item type is decoded, the metadata
\* is fetched when there is a content uri
ReadNote(linkItemType, contentUri) ==
  /\ call.pc = "reading"
  /\ call.op = "getNote"
  /\ LET linkItemTypeString == parseBytes32String(linkItemType)
     IN  call' = IF ~linkItemTypeString.ok THEN Fail(call, "InvalidBytes32")
                 ELSE [call EXCEPT
                         !.pc = IF contentUri # "" THEN "fetching" ELSE "done",
                         !.result = Result(FALSE, linkItemTypeString.str,
                                           contentUri, FALSE, 0)]
  /\ UNCHANGED <<activeNetwork, receipts, codec, ipfs, chain>>

\* Ipfs.uriToMetadata settles
Fetched(ok) ==
  /\ call.pc = "fetching"
  /\ call' = IF ok THEN [call EXCEPT !.pc = "done"]
             ELSE Fail([call EXCEPT !.result = NoResult], "ResolveFailed")
  /\ UNCHANGED <<activeNetwork, receipts, codec, ipfs, chain>>

\* the caller takes the outcome
Return ==
  /\ call.pc \in {"done", "failed"}
  /\ call' = Idle
  /\ UNCHANGED <<activeNetwork, receipts, codec, ipfs, chain>>

\* the user changes the network in the wallet
UserSwitch(n) ==
  /\ call.pc = "idle"
  /\ codec.pc = "idle"
  /\ n # activeNetwork
  /\ activeNetwork' = n
  /\ UNCHANGED <<receipts, call, codec, ipfs, chain>>

(***************************************************************************)
(* The codec on its own: encode a link type, decode the bytes.             *)
(***************************************************************************)
Libs == {"viem", "ethers"}

encodeLinkType(lib, s) ==
  IF lib = "viem" THEN padRightToHex(s) ELSE formatBytes32String(s)

decodeLinkType(b) == parseBytes32String(b)

Encode(lib, s) ==
  /\ call.pc = "idle"
  /\ codec.pc = "idle"
  /\ LET e == encodeLinkType(lib, s)
     IN  codec' = [CodecIdle EXCEPT !.pc = "encoded", !.lib = lib, !.str = s,
                                    !.ok = e.ok, !.bytes = e.bytes]
  /\ UNCHANGED <<activeNetwork, receipts, call, ipfs, chain>>

Decode ==
  /\ codec.pc = "encoded"
  /\ codec.ok
  /\ codec' = [codec EXCEPT !.pc = "decoded",
                            !.decoded = decodeLinkType(codec.bytes)]
  /\ UNCHANGED <<activeNetwork, receipts, call, ipfs, chain>>

CodecReturn ==
  /\ codec.pc \in {"encoded", "decoded"}
  /\ codec' = CodecIdle
  /\ UNCHANGED <<activeNetwork, receipts, call, ipfs, chain>>

(***************************************************************************)
(* The specification.                                                      *)
(***************************************************************************)
Next ==
  \/ \E o \in Ops : \E a \in ArgsOf(o) : Invoke(o, a)
  \/ GuardCheck
  \/ \E ok \in BOOLEAN : SwitchResult(ok)
  \/ Submit
  \/ \E accepted \in BOOLEAN : SignerResult(accepted)
  \/ \E logs \in LogsOf(call.op) : Confirm(logs)
  \/ \E err \in {"Reverted", "Timeout"} : WaitFails(err)
  \/ ReadCall
  \/ ReadReceipt
  \/ \E ids \in LinkingIds : ReadLinkingIds(ids)
  \/ \E ok \in BOOLEAN : Gathered(ok)
  \/ \E uri \in Uris : ReadUri(uri)
  \/ \E t \in LinkItemTypes : \E uri \in Uris : ReadNote(t, uri)
  \/ \E ok \in BOOLEAN : Fetched(ok)
  \/ Return
  \/ \E n \in Networks : UserSwitch(n)

Spec == Init /\ [][Next]_vars

\* the lists of linked ids the contract can answer getLinkingCharacters
\* with: no id twice, in any order
GatherIds ==
  { s \in SeqsUpTo({2, 3, 4}, MaxTargets) :
      \A i, j \in 1..Len(s) : i # j => s[i] # s[j] }

\* getLinkingCharacters with each of its reads
GatherNext ==
  \/ \E a \in ArgsOf(getLinkingCharacters) : Invoke(getLinkingCharacters, a)
  \/ ReadCall
  \/ \E ids \in GatherIds : ReadLinkingIds(ids)
  \/ \E i \in 1..MaxTargets : \E ok \in BOOLEAN : CharacterRead(i, ok)
  \/ GatherDone
  \/ Return

GatherSpec == Init /\ [][GatherNext]_vars

\* the codec alone
CodecNext ==
  \/ \E lib \in Libs : \E s \in Strings : Encode(lib, s)
  \/ Decode
  \/ CodecReturn

CodecSpec == Init /\ [][CodecNext]_vars

(***************************************************************************)
(* The Ipfs calls.                                                         *)
(***************************************************************************)
IpfsFail(c, err) == [c EXCEPT !.pc = "failed", !.error = err]

\* uriToMetadata up to its first await: a wrong ipfs URL is logged and
\* undefined is returned; otherwise the fetch is issued
uriToMetadata(c) ==
  IF c.edition = "current" /\ isIpfsUrl(c.uri) /\ ~isIpfs_url(c.uri)
  THEN [c EXCEPT !.pc = "done", !.logged = TRUE,
                 !.result = IpfsResult(IF c.op = "parseMetadataOrUri"
                                       THEN c.uri ELSE EmptyUri,
                                       "undefined")]
  ELSE [c EXCEPT !.pc = "fetching", !.fetches = @ + 1]

\* uploadJson up to its first await: the first attempt is made, with the
\* object as it is now as the body
uploadJson(c) ==
  [c EXCEPT !.pc = "uploading", !.uploads = @ + 1, !.body = c.metadataType]

\* metadataToUri up to its first await: it calls uploadJson
metadataToUri(c) == uploadJson([c EXCEPT !.publishes = @ + 1])

\* a variant that sets the type whatever the object holds
Tagged_overwriting(c) == [c EXCEPT !.metadataType = c.type]

\* if (!metadata.type) metadata.type = type
Tagged(c) ==
  [c EXCEPT !.metadataType = IF @ = "absent" THEN c.type ELSE @]

\* parseMetadataOrUri without its test for the empty string
parseMetadataOrUri_noShortCircuit(c) ==
  IF c.isString
  THEN IF c.retrieveMetadataIfNeeded THEN uriToMetadata(c)
       ELSE [c EXCEPT !.pc = "done", !.result = IpfsResult(c.uri, "undefined")]
  ELSE metadataToUri(Tagged(c))

\* parseMetadataOrUri up to its first await
parseMetadataOrUri(c) ==
  IF c.isString /\ c.uri = EmptyUri
  THEN [c EXCEPT !.pc = "done", !.result = IpfsResult(EmptyUri, "undefined")]
  ELSE IF c.isString
  THEN IF c.retrieveMetadataIfNeeded THEN uriToMetadata(c)
       ELSE [c EXCEPT !.pc = "done", !.result = IpfsResult(c.uri, "undefined")]
  ELSE metadataToUri(Tagged(c))

\* the arguments of an entry point: a metadata object, or a string
IpfsArgsOf(op) ==
  CASE op \in {"uploadJson", "metadataToUri"} ->
         { [uri |-> EmptyUri, isString |-> FALSE,
            retrieveMetadataIfNeeded |-> FALSE, type |-> "note",
            inputType |-> "note"] }
    [] op = "uriToMetadata" ->
         { [uri |-> u, isString |-> TRUE, retrieveMetadataIfNeeded |-> TRUE,
            type |-> "note", inputType |-> "absent"] :
             u \in IpfsUris }
    [] OTHER ->
         { [uri |-> EmptyUri, isString |-> FALSE,
            retrieveMetadataIfNeeded |-> r, type |-> t, inputType |-> m] :
             r \in BOOLEAN, t \in MetadataTypes,
             m \in MetadataTypes \cup {"absent"} }
         \cup
         { [uri |-> u, isString |-> TRUE, retrieveMetadataIfNeeded |-> r,
            type |-> "note", inputType |-> "absent"] :
             u \in IpfsUris, r \in BOOLEAN }

\* an entry point of Ipfs is called
IpfsCall(edition, op, a) ==
  /\ ipfs.pc = "idle"
  /\ LET c == [IpfsIdle EXCEPT !.edition = edition, !.op = op,
                               !.isString = a.isString, !.uri = a.uri,
                               !.retrieveMetadataIfNeeded =
                                  a.retrieveMetadataIfNeeded,
                               !.type = a.type, !.inputType = a.inputType,
                               !.metadataType = a.inputType]
     IN  ipfs' = CASE op = "parseMetadataOrUri" -> parseMetadataOrUri(c)
                   [] op = "uriToMetadata" -> uriToMetadata(c)
                   [] op = "metadataToUri" -> metadataToUri(c)
                   [] OTHER -> uploadJson(c)
  /\ UNCHANGED <<activeNetwork, receipts, call, codec, chain>>

\* an upload attempt throws (the request fails or the body is not JSON):
\* retry() runs the attempt again while attempts are left
UploadThrows_unbounded ==
  /\ ipfs.pc = "uploading"
  /\ ipfs' = IF ipfs.uploads < RETRIES + 2
             THEN [ipfs EXCEPT !.uploads = @ + 1]
             ELSE IpfsFail(ipfs, "UploadError")
  /\ UNCHANGED <<activeNetwork, receipts, call, codec, chain>>

UploadThrows ==
  /\ ipfs.pc = "uploading"
  /\ ipfs' = IF ipfs.uploads < MaxAttempts(ipfs.edition)
             THEN [ipfs EXCEPT !.uploads = @ + 1]
             ELSE IpfsFail(ipfs, "UploadError")
  /\ UNCHANGED <<activeNetwork, receipts, call, codec, chain>>

\* a variant that runs the attempt again when the response has no ipfs url
UploadResolves_retrying(res) ==
  /\ ipfs.pc = "uploading"
  /\ LET bad == ~(res.hasUrl /\ isIpfsUrl(res.url))
     IN  ipfs' =
           IF ipfs.op = "uploadJson"
           THEN [ipfs EXCEPT !.pc = "done", !.badResponse = bad,
                             !.result = IpfsResult(res.url, "undefined")]
           ELSE IF bad
           THEN IF ipfs.uploads < MaxAttempts(ipfs.edition)
                THEN [ipfs EXCEPT !.uploads = @ + 1, !.badResponse = TRUE]
                ELSE IpfsFail([ipfs EXCEPT !.badResponse = TRUE],
                              "PublishFailed")
           ELSE [ipfs EXCEPT
                   !.pc = "done",
                   !.result = IpfsResult(res.url,
                                         IF ipfs.op = "parseMetadataOrUri"
                                         THEN "object" ELSE "undefined")]
  /\ UNCHANGED <<activeNetwork, receipts, call, codec, chain>>

\* a variant in which metadataToUri returns res.url without checking it
UploadResolves_unchecked(res) ==
  /\ ipfs.pc = "uploading"
  /\ ipfs' = [ipfs EXCEPT
               !.pc = "done",
               !.badResponse = ~(res.hasUrl /\ isIpfsUrl(res.url)),
               !.result = IpfsResult(res.url,
                                     IF ipfs.op = "parseMetadataOrUri"
                                     THEN "object" ELSE "undefined")]
  /\ UNCHANGED <<activeNetwork, receipts, call, codec, chain>>

\* an upload attempt resolves with the store's response: uploadJson
\* returns it, metadataToUri checks its url
UploadResolves(res) ==
  /\ ipfs.pc = "uploading"
  /\ LET bad == ~(res.hasUrl /\ isIpfsUrl(res.url))
     IN  ipfs' =
           IF ipfs.op = "uploadJson"
           THEN [ipfs EXCEPT !.pc = "done", !.badResponse = bad,
                             !.result = IpfsResult(res.url, "undefined")]
           ELSE IF bad
           THEN IpfsFail([ipfs EXCEPT !.badResponse = TRUE], "PublishFailed")
           ELSE [ipfs EXCEPT
                   !.pc = "done",
                   !.result = IpfsResult(res.url,
                                         IF ipfs.op = "parseMetadataOrUri"
                                         THEN "object" ELSE "undefined")]
  /\ UNCHANGED <<activeNetwork, receipts, call, codec, chain>>

\* a variant that fetches again, up to the bound of the uploads, when the
\* fetch fails or the body is not JSON
FetchSettles_retrying(outcome) ==
  /\ ipfs.pc = "fetching"
  /\ ipfs' =
       IF outcome = "json"
       THEN [ipfs EXCEPT
               !.pc = "done",
               !.result = IpfsResult(IF ipfs.op = "parseMetadataOrUri"
                                     THEN ipfs.uri ELSE EmptyUri,
                                     "object")]
       ELSE IF ipfs.fetches < RETRIES
       THEN [ipfs EXCEPT !.fetches = @ + 1]
       ELSE IpfsFail(ipfs, "ResolveFailed")
  /\ UNCHANGED <<activeNetwork, receipts, call, codec, chain>>

\* the fetch of uriToMetadata settles: with JSON, with other text, or not
\* at all
FetchSettles(outcome) ==
  /\ ipfs.pc = "fetching"
  /\ ipfs' =
       IF outcome = "json"
       THEN [ipfs EXCEPT
               !.pc = "done",
               !.result = IpfsResult(IF ipfs.op = "parseMetadataOrUri"
                                     THEN ipfs.uri ELSE EmptyUri,
                                     "object")]
       ELSE IF ipfs.edition = "current" /\ isIpfsUrl(ipfs.uri)
                 /\ outcome = "rejected"
       THEN IpfsFail(ipfs, "FetchError")
       ELSE IpfsFail(ipfs, "ResolveFailed")
  /\ UNCHANGED <<activeNetwork, receipts, call, codec, chain>>

\* the caller takes the outcome
IpfsReturn ==
  /\ ipfs.pc \in {"done", "failed"}
  /\ ipfs' = IpfsIdle
  /\ UNCHANGED <<activeNetwork, receipts, call, codec, chain>>

\* postNote is called with a metadata object or a string: it awaits
\* Ipfs.parseMetadataOrUri('note', metadataOrUri)
PostNote(a) ==
  /\ call.pc = "idle"
  /\ codec.pc = "idle"
  /\ Len(receipts) < MaxTxs
  /\ call' = [Idle EXCEPT !.op = "postNote", !.pc = "resolving"]
  /\ ipfs' = parseMetadataOrUri(
               [IpfsIdle EXCEPT !.op = "parseMetadataOrUri",
                                !.isString = a.isString, !.uri = a.uri,
                                !.retrieveMetadataIfNeeded = FALSE,
                                !.type = "note", !.inputType = a.inputType,
                                !.metadataType = a.inputType])
  /\ UNCHANGED <<activeNetwork, receipts, codec, chain>>

\* a variant that calls the contract although the metadata step failed
PostNoteSubmit_ignoringFailure ==
  /\ call.pc = "resolving"
  /\ call.op = "postNote"
  /\ ipfs.pc \in {"done", "failed"}
  /\ call' = [call EXCEPT !.pc = "signing", !.writes = @ + 1,
                          !.chainCalls = @ + 1,
                          !.contentUri = ipfs.result.uri]
  /\ UNCHANGED <<activeNetwork, receipts, codec, ipfs, chain>>

\* parseMetadataOrUri settles: its error leaves postNote, its uri is
\* handed to contract.postNote as contentUri
PostNoteSubmit ==
  /\ call.pc = "resolving"
  /\ call.op = "postNote"
  /\ ipfs.pc \in {"done", "failed"}
  /\ call' = IF ipfs.pc = "failed" THEN Fail(call, ipfs.error)
             ELSE [call EXCEPT !.pc = "signing", !.writes = @ + 1,
                               !.chainCalls = @ + 1,
                               !.contentUri = ipfs.result.uri]
  /\ UNCHANGED <<activeNetwork, receipts, codec, ipfs, chain>>

\* the arguments postNote is called with: the metadataOrUri values
PostNoteArgs ==
  { a \in IpfsArgsOf("parseMetadataOrUri") :
      ~a.retrieveMetadataIfNeeded /\ a.type = "note" }

\* postNote from the call to the returned object
PostNoteNext ==
  \/ \E a \in PostNoteArgs : PostNote(a)
  \/ UploadThrows
  \/ \E res \in IpfsResponses : UploadResolves(res)
  \/ PostNoteSubmit
  \/ \E accepted \in BOOLEAN : SignerResult(accepted)
  \/ \E logs \in LogsOf(call.op) : Confirm(logs)
  \/ \E err \in {"Reverted", "Timeout"} : WaitFails(err)
  \/ Return

PostNoteSpec == Init /\ [][PostNoteNext]_vars

\* the content store alone
IpfsNext ==
  \/ \E e \in Editions : \E op \in IpfsOps : \E a \in IpfsArgsOf(op) :
       IpfsCall(e, op, a)
  \/ UploadThrows
  \/ \E res \in IpfsResponses : UploadResolves(res)
  \/ \E outcome \in {"json", "text", "rejected"} : FetchSettles(outcome)
  \/ IpfsReturn

IpfsSpec == Init /\ [][IpfsNext]_vars

(***************************************************************************)
(* The calls against the contract.                                         *)
(***************************************************************************)
\* "follow" and "like"
ChainLinkTypes ==
  { <<102, 111, 108, 108, 111, 119>>, <<108, 105, 107, 101>> }

\* the methods called against the contract
ChainOps ==
  { linkCharacter, unlinkCharacter, linkCharactersInBatch,
    createThenLinkCharacter, linkAddress, linkAnyUri, linkErc721, linkNote,
    linkLinklist, getLinkingCharacterIds, getLinklistIdByTransaction }

\* the arguments of a call against the contract
ChainArgsOf(o) ==
  CASE o.name = "linkCharacter" ->
         { Args(1, lt, <<to>>, <<>>, FALSE, <<>>, 0) :
             lt \in ChainLinkTypes, to \in {2, 3} }
    [] o.name = "unlinkCharacter" ->
         { Args(1, lt, <<2>>, <<>>, FALSE, <<>>, 0) : lt \in ChainLinkTypes }
    [] o.name = "linkCharactersInBatch" ->
         { Args(1, lt, tos, <<>>, FALSE, <<>>, 0) :
             lt \in {<<102, 111, 108, 108, 111, 119>>},
             tos \in {<<>>, <<3>>, <<2, 3>>} }
    [] o.name = "createThenLinkCharacter" ->
         { Args(1, lt, <<>>, <<a>>, FALSE, <<>>, 0) :
             lt \in {<<102, 111, 108, 108, 111, 119>>},
             a \in { x \in Addresses : validateAddress(x) } }
    [] o.name = "getLinkingCharacterIds" ->
         { Args(1, lt, <<>>, <<>>, FALSE, <<>>, 0) : lt \in ChainLinkTypes }
    [] o.name = "getLinklistIdByTransaction" ->
         { Args(0, <<>>, <<>>, <<>>, FALSE, <<>>, h) : h \in 1..Len(receipts) }
    [] OTHER ->
         { Args(1, lt, <<>>, <<>>, FALSE, <<>>, 0) :
             lt \in {<<102, 111, 108, 108, 111, 119>>} }

\* a method is called
ChainInvoke(o, a) ==
  /\ call.pc = "idle"
  /\ o.kind = "write" => Len(receipts) < MaxChainTxs
  /\ call' = [Idle EXCEPT !.op = o.name, !.args = a,
                          !.pc = IF o.guarded THEN "guard" ELSE "body"]
  /\ UNCHANGED <<activeNetwork, receipts, codec, ipfs, chain>>

\* a variant in which a call that fails to match leaves the contract as it
\* was before the transaction
Mine_undoing ==
  /\ call.pc = "waiting"
  /\ LET run == Execute(chain, call.op, call.sent)
         receipt == Receipt(call.hash, run.logs)
         c == Settle(call, receipt)
         after == IF c.pc = "done" THEN run.chain ELSE chain
     IN  /\ receipts' = Append(receipts, receipt)
         /\ call' = c
         /\ chain' =
              [after EXCEPT
                 !.returned =
                    Append(@, Returned(call.op, c.pc = "done",
                                       call.sent.fromCharacterId,
                                       call.sent.linkType,
                                       call.sent.toCharacterIds,
                                       IF c.pc = "done" /\ c.result.ids # <<>>
                                       THEN c.result.ids[Len(c.result.ids)]
                                       ELSE 0)),
                 !.seen = Append(@, NotSeen)]
  /\ UNCHANGED <<activeNetwork, codec, ipfs>>

\* the transaction is mined: the contract runs it,
\* waitForTransactionReceipt resolves, the method parses and returns
Mine ==
  /\ call.pc = "waiting"
  /\ LET run == Execute(chain, call.op, call.sent)
         receipt == Receipt(call.hash, run.logs)
         c == Settle(call, receipt)
     IN  /\ receipts' = Append(receipts, receipt)
         /\ call' = c
         /\ chain' =
              [run.chain EXCEPT
                 !.returned =
                    Append(@, Returned(call.op, c.pc = "done",
                                       call.sent.fromCharacterId,
                                       call.sent.linkType,
                                       call.sent.toCharacterIds,
                                       IF c.pc = "done" /\ c.result.ids # <<>>
                                       THEN c.result.ids[Len(c.result.ids)]
                                       ELSE 0)),
                 !.seen = Append(@, NotSeen)]
  /\ UNCHANGED <<activeNetwork, codec, ipfs>>

\* a lookup that reads the latest receipt, whatever the hash
Lookup_latest ==
  /\ call.pc = "reading"
  /\ call.op = "getLinklistIdByTransaction"
  /\ LET h == call.args.hash
         c == IF h \in 1..Len(receipts)
              THEN Settle(call, receipts[Len(receipts)])
              ELSE Fail(call, "ReceiptNotFound")
     IN  /\ call' = c
         /\ chain' = IF h \notin 1..Len(receipts) THEN chain
                     ELSE IF chain.seen[h] = NotSeen
                     THEN [chain EXCEPT
                             !.seen[h] = Outcome(c.pc, c.result.ids, c.error,
                                                 FALSE)]
                     ELSE [chain EXCEPT !.seen[h].again = TRUE]
  /\ UNCHANGED <<activeNetwork, receipts, codec, ipfs>>

\* getTransactionReceipt resolves: the method parses and returns (the
\* first outcome for a hash is remembered)
Lookup ==
  /\ call.pc = "reading"
  /\ call.op = "getLinklistIdByTransaction"
  /\ LET h == call.args.hash
         c == IF h \in 1..Len(receipts)
              THEN Settle(call, receipts[h])
              ELSE Fail(call, "ReceiptNotFound")
     IN  /\ call' = c
         /\ chain' = IF h \notin 1..Len(receipts) THEN chain
                     ELSE IF chain.seen[h] = NotSeen
                     THEN [chain EXCEPT
                             !.seen[h] = Outcome(c.pc, c.result.ids, c.error,
                                                 FALSE)]
                     ELSE [chain EXCEPT !.seen[h].again = TRUE]
  /\ UNCHANGED <<activeNetwork, receipts, codec, ipfs>>

\* a variant that asks with the link type as it is, not padded
ReadLinking_unpadded ==
  /\ call.pc = "reading"
  /\ call.op = "getLinkingCharacterIds"
  /\ call' = [call EXCEPT
                !.pc = "done",
                !.result = Result(FALSE,
                                  LinkingCharacterIds(
                                    chain, call.args.fromCharacterId,
                                    toUtf8Bytes(call.args.linkType)),
                                  "", FALSE, 0)]
  /\ UNCHANGED <<activeNetwork, receipts, codec, ipfs, chain>>

\* peripheryContract.read.getLinkingCharacterIds resolves with the
\* characters linked under the padded link type
ReadLinking ==
  /\ call.pc = "reading"
  /\ call.op = "getLinkingCharacterIds"
  /\ call' = [call EXCEPT
                !.pc = "done",
                !.result = Result(FALSE,
                                  LinkingCharacterIds(
                                    chain, call.args.fromCharacterId,
                                    padRightToHex(call.args.linkType).bytes),
                                  "", FALSE, 0)]
  /\ UNCHANGED <<activeNetwork, receipts, codec, ipfs, chain>>

\* the signer is on the deployment network
ChainInit == Init /\ activeNetwork = DeployNetwork

ChainNext ==
  \/ \E o \in ChainOps : \E a \in ChainArgsOf(o) : ChainInvoke(o, a)
  \/ GuardCheck
  \/ Submit
  \/ \E accepted \in BOOLEAN : SignerResult(accepted)
  \/ Mine
  \/ ReadCall
  \/ Lookup
  \/ ReadLinking
  \/ Return

ChainSpec == ChainInit /\ [][ChainNext]_vars

(***************************************************************************)
(* Properties.                                                             *)
(***************************************************************************)
\* the positions of the events called name
IndicesOf(logs, name) == { i \in 1..Len(logs) : logs[i].name = name }

Min(S) == CHOOSE x \in S : \A y \in S : x <= y

\* the first event called name
FirstOf(logs, name) == logs[Min(IndicesOf(logs, name))]

\* the invocation is a write whose receipt has arrived
Confirmed == call.pc \in {"done", "failed"} /\ call.hash \in 1..Len(receipts)

\* the invocation is a read of a receipt that exists
Looked ==
  /\ call.op = "getLinklistIdByTransaction"
  /\ call.pc \in {"done", "failed"}
  /\ call.args.hash \in 1..Len(receipts)

\* the outcome of a strict match for LinkCharacter in logs
StrictOutcome(logs) ==
  LET n == Cardinality(IndicesOf(logs, "LinkCharacter"))
  IN  /\ n = 0 => call.pc = "failed" /\ call.error = "EventNotFound"
      /\ n = 1 => /\ call.pc = "done"
                  /\ call.result.ids = <<FirstOf(logs, "LinkCharacter").id>>
      /\ n > 1 => call.pc = "failed" /\ call.error = "AmbiguousEvent"

\* C1: a strict match (linkCharacter, getLinklistIdByTransaction) returns
\* the LinkCharacter event when the receipt has exactly one, fails with
\* EventNotFound when it has none and with AmbiguousEvent when it has two
\* or more.
C1_StrictMatch ==
  /\ (call.op = "linkCharacter" /\ Confirmed)
       => StrictOutcome(receipts[call.hash].logs)
  /\ Looked => StrictOutcome(receipts[call.args.hash].logs)

\* C1 witness: a lookup by hash has failed on a receipt with two
\* LinkCharacter events.
C1_Witness ==
  /\ Looked
  /\ Cardinality(IndicesOf(receipts[call.args.hash].logs, "LinkCharacter")) = 2
  /\ call.error = "AmbiguousEvent"

\* C2: linkCharactersInBatch, on a receipt with two or more LinkCharacter
\* events, succeeds with the linklistId of the first of them and the hash
\* of the receipt.
C2_BatchFirstWins ==
  (/\ call.op = "linkCharactersInBatch"
   /\ Confirmed
   /\ Cardinality(IndicesOf(receipts[call.hash].logs, "LinkCharacter")) >= 2)
    => /\ call.pc = "done"
       /\ call.result.ids =
            <<FirstOf(receipts[call.hash].logs, "LinkCharacter").id>>
       /\ call.result.hasHash
       /\ call.result.transactionHash = receipts[call.hash].transactionHash

\* C2 witness: a batch call has returned 7 from a receipt whose
\* LinkCharacter events carry 7 then 9.
C2_Witness ==
  /\ call.op = "linkCharactersInBatch"
  /\ Confirmed
  /\ receipts[call.hash].logs =
       <<Event("LinkCharacter", 7), Event("LinkCharacter", 9)>>
  /\ call.pc = "done"
  /\ call.result.ids = <<7>>

\* a batch call whose data array and targets differ in length
Mismatch ==
  /\ call.op = "linkCharactersInBatch"
  /\ call.args.hasData
  /\ Len(call.args.data) # Len(call.args.toCharacterIds)

\* C3 (as claimed): linkCharactersInBatch with a data array of another
\* length than the targets fails with LengthMismatch and submits nothing.
C3_LengthMismatchRejected ==
  Mismatch =>
    /\ call.writes = 0
    /\ call.pc \in {"guard", "switching", "body", "failed"}
    /\ call.pc = "failed" =>
         call.error \in {"LengthMismatch", "WrongNetwork", "InvalidAddress",
                         "ValueTooLong"}

\* the UTF-8 byte length of a string
ByteLen(s) == Len(toUtf8Bytes(s))

EndsWithNul(s) == s # <<>> /\ s[Len(s)] = 0

\* what decoding the encoding of the string must give
RoundTrips ==
  /\ codec.ok
  /\ codec.pc = "decoded" => codec.decoded.ok /\ codec.decoded.str = codec.str

\* C4 (amended): for every string of at most 31 UTF-8 bytes that does not
\* end in a NUL character, the encoding exists and decoding it (strip the
\* trailing zero bytes, decode UTF-8) yields exactly the string.
C4_RoundTrip ==
  (/\ codec.pc # "idle"
   /\ ByteLen(codec.str) <= BYTES32 - 1
   /\ ~EndsWithNul(codec.str)) => RoundTrips

\* C4 (as claimed): the same for every string of at most 32 UTF-8 bytes.
C4_RoundTripUpTo32 ==
  (codec.pc # "idle" /\ ByteLen(codec.str) <= BYTES32) => RoundTrips

\* C4 witness: a string of 31 bytes has been encoded and decoded to itself.
C4_Witness ==
  /\ codec.pc = "decoded"
  /\ ByteLen(codec.str) = BYTES32 - 1
  /\ codec.decoded.ok
  /\ codec.decoded.str = codec.str

\* C5: a link type of more than 32 UTF-8 bytes is never sent to the
\* contract, whole or cut to 32 bytes: the invocation makes no write call
\* and, once past the guard and the address validation, fails with
\* ValueTooLong.
C5_TooLongRejected ==
  (call.op # "none" /\ ByteLen(call.args.linkType) > BYTES32) =>
    /\ call.writes = 0
    /\ call.sent = NotSent
    /\ call.pc \in {"guard", "switching", "body", "failed"}
    /\ call.pc = "failed" =>
         call.error \in {"ValueTooLong", "WrongNetwork", "InvalidAddress"}

\* C5 witness: linkCharacter with 17 two-byte characters (34 bytes) has
\* failed with ValueTooLong.
C5_Witness ==
  /\ call.op = "linkCharacter"
  /\ call.args.linkType = Rep(233, 17)
  /\ call.pc = "failed"
  /\ call.error = "ValueTooLong"

\* C6 (as claimed): a validation failure of a mutating link operation comes
\* before any chain client call of the invocation, the network guard's
\* included, and nothing is submitted.
C6_ValidationBeforeChain ==
  /\ (call.pc = "failed"
      /\ call.error \in {"ValueTooLong", "InvalidAddress", "LengthMismatch"})
       => call.chainCalls = 0 /\ call.writes = 0
  /\ Mismatch => call.writes = 0

\* C7 (as claimed): no mutating operation makes its write call unless the
\* network guard ran first in the invocation, and a rejected switch ends in
\* WrongNetwork with nothing submitted.
C7_GuardBeforeSubmit ==
  /\ call.writes > 0 => call.guardRan
  /\ (call.pc = "failed" /\ call.error = "WrongNetwork") => call.writes = 0

\* C8: an invocation makes at most one write call, whatever fails after it,
\* and a batch sends all its targets in that one call.
C8_AtMostOneSubmission ==
  /\ call.writes <= 1
  /\ call.pc \in {"signing", "waiting", "done"} =>
       (call.writes = 1 <=> call.op \notin
          {"getLinklistIdByTransaction", "getLinkingCharacterIds",
           "getLinkingCharacters", "getLinklistUri", "getNote"})
  /\ (call.op = "linkCharactersInBatch" /\ call.writes = 1) =>
       /\ call.sent.toCharacterIds = call.args.toCharacterIds
       /\ call.sent.toAddresses = call.args.toAddresses

\* C8 witness: a batch call of three targets has failed on its receipt
\* after one write call.
C8_Witness ==
  /\ call.op = "linkCharactersInBatch"
  /\ Len(call.args.toCharacterIds) = 3
  /\ Confirmed
  /\ call.pc = "failed"
  /\ call.error = "EventNotFound"
  /\ call.writes = 1

ReadOps ==
  {"getLinklistIdByTransaction", "getLinkingCharacterIds",
   "getLinkingCharacters", "getLinklistUri", "getNote"}

NoEventOps ==
  {"unlinkCharacter", "unlinkAddress", "unlinkAnyUri", "unlinkErc721",
   "unlinkNote", "unlinkLinklist", "mintNote", "setLinklistUri"}

\* C9: a successful read result carries no transactionHash; a successful
\* result of a mutating operation carries the transactionHash of its
\* receipt; unlink*, mintNote and setLinklistUri succeed with data
\* undefined on any confirmed receipt.
C9_HashIffMutating ==
  /\ (call.pc = "done" /\ call.op \in ReadOps) => ~call.result.hasHash
  /\ (call.pc = "done" /\ call.op \notin ReadOps) =>
       /\ call.result.hasHash
       /\ call.hash \in 1..Len(receipts)
       /\ call.result.transactionHash = receipts[call.hash].transactionHash
  /\ (call.op \in NoEventOps /\ Confirmed) =>
       /\ call.pc = "done"
       /\ call.result.undefined
       /\ call.result.hasHash

\* C9 witness: unlinkCharacter has returned data undefined with the hash
\* of a receipt that holds events.
C9_Witness ==
  /\ call.op = "unlinkCharacter"
  /\ call.pc = "done"
  /\ Len(receipts[call.hash].logs) = 2
  /\ call.result.undefined
  /\ call.result.hasHash
  /\ call.result.transactionHash = call.hash

\* C10: linkCharacter, on a receipt with exactly one LinkCharacter event,
\* returns that event's linklistId as data and the receipt's hash as
\* transactionHash.
C10_LinkCharacterResult ==
  (/\ call.op = "linkCharacter"
   /\ Confirmed
   /\ Cardinality(IndicesOf(receipts[call.hash].logs, "LinkCharacter")) = 1)
    => /\ call.pc = "done"
       /\ ~call.result.undefined
       /\ call.result.ids =
            <<FirstOf(receipts[call.hash].logs, "LinkCharacter").id>>
       /\ call.result.hasHash
       /\ call.result.transactionHash = receipts[call.hash].transactionHash

\* C10 witness: linkCharacter has returned data 7 and the receipt's hash
\* from a receipt whose one LinkCharacter event carries 7.
C10_Witness ==
  /\ call.op = "linkCharacter"
  /\ call.pc = "done"
  /\ receipts[call.hash].logs =
       <<Event("Transfer", 0), Event("LinkCharacter", 7)>>
  /\ call.result.ids = <<7>>
  /\ call.result.hasHash
  /\ call.result.transactionHash = receipts[call.hash].transactionHash

\* the number of events called name
CountOf(logs, name) == Cardinality(IndicesOf(logs, name))

\* C15: createThenLinkCharacter, on a receipt with exactly one
\* CharacterCreated and exactly one LinkCharacter event, returns
\* toCharacterId from the first and linklistId from the second, with the
\* hash of that receipt; when CharacterCreated is missing, or LinkCharacter
\* is missing beside one CharacterCreated, it fails with EventNotFound and
\* returns nothing.
C15_CreateThenLinkResult ==
  (call.op = "createThenLinkCharacter" /\ Confirmed) =>
    LET logs == receipts[call.hash].logs
        nCreated == CountOf(logs, "CharacterCreated")
        nLinked == CountOf(logs, "LinkCharacter")
    IN  /\ (nCreated = 1 /\ nLinked = 1) =>
             /\ call.pc = "done"
             /\ call.result.ids = <<FirstOf(logs, "CharacterCreated").id,
                                    FirstOf(logs, "LinkCharacter").id>>
             /\ call.result.hasHash
             /\ call.result.transactionHash = receipts[call.hash].transactionHash
        /\ (nCreated = 0 \/ (nCreated = 1 /\ nLinked = 0)) =>
             /\ call.pc = "failed"
             /\ call.error = "EventNotFound"
             /\ call.result = NoResult

\* C15 witness: createThenLinkCharacter has returned toCharacterId 9 and
\* linklistId 7 from a receipt with one event of each name.
C15_Witness ==
  /\ call.op = "createThenLinkCharacter"
  /\ Confirmed
  /\ receipts[call.hash].logs =
       <<Event("CharacterCreated", 9), Event("LinkCharacter", 7)>>
  /\ call.pc = "done"
  /\ call.result.ids = <<9, 7>>
  /\ call.result.transactionHash = call.hash

\* C17: parseMetadataOrUri with the empty string returns
\* {uri: '', metadata: undefined} for either value of the flag, without an
\* upload and without a fetch.
C17_EmptyStringShortCircuit ==
  (/\ ipfs.op = "parseMetadataOrUri"
   /\ ipfs.isString
   /\ ipfs.uri = EmptyUri) =>
    /\ ipfs.pc = "done"
    /\ ipfs.result = IpfsResult(EmptyUri, "undefined")
    /\ ipfs.uploads = 0
    /\ ipfs.fetches = 0

\* C17 witness: parseMetadataOrUri('') with the flag set has returned.
C17_Witness ==
  /\ ipfs.op = "parseMetadataOrUri"
  /\ ipfs.isString
  /\ ipfs.uri = EmptyUri
  /\ ipfs.retrieveMetadataIfNeeded
  /\ ipfs.pc = "done"
  /\ ipfs.fetches = 0

\* the entry points that upload
Publishing ==
  \/ ipfs.op \in {"uploadJson", "metadataToUri"}
  \/ ipfs.op = "parseMetadataOrUri" /\ ~ipfs.isString

OnlyIpfsUris ==
  (ipfs.pc = "done" /\ Publishing /\ ipfs.op # "uploadJson") =>
    isIpfsUrl(ipfs.result.uri)

\* C19 (amended): metadataToUri returns only URIs that start with ipfs://;
\* a response whose url is missing or lacks the prefix is not retried: the
\* call fails with PublishFailed on that response, whatever attempts are
\* left.
C19_BadResponseFailsAtOnce ==
  /\ OnlyIpfsUris
  /\ (Publishing /\ ipfs.op # "uploadJson" /\ ipfs.badResponse) =>
       ipfs.pc = "failed" /\ ipfs.error = "PublishFailed"
  /\ ipfs.error = "PublishFailed" => ipfs.badResponse

\* C19 (as claimed): such a response is retried, and PublishFailed comes
\* only when no attempt is left.
C19_BadResponseRetried ==
  /\ OnlyIpfsUris
  /\ ipfs.error = "PublishFailed" =>
       ipfs.uploads = MaxAttempts(ipfs.edition)

\* C19 witness: metadataToUri has failed with PublishFailed on the response
\* to its first attempt, with three attempts left.
C19_Witness ==
  /\ ipfs.op = "metadataToUri"
  /\ ipfs.edition = "current"
  /\ ipfs.pc = "failed"
  /\ ipfs.error = "PublishFailed"
  /\ ipfs.badResponse
  /\ ipfs.uploads = 1

\* C20 (as claimed): uriToMetadata with a malformed ipfs URI fails with
\* InvalidUri, returns nothing and makes no fetch.
C20_MalformedRejected ==
  (/\ ipfs.op = "uriToMetadata"
   /\ ipfs.edition = "current"
   /\ isIpfsUrl(ipfs.uri)
   /\ ~isIpfs_url(ipfs.uri)) =>
    /\ ipfs.fetches = 0
    /\ ipfs.pc = "failed"
    /\ ipfs.error = "InvalidUri"

\* the transactions whose call returned and which linked or unlinked
\* (from, link type, to): linkCharacter, linkCharactersInBatch,
\* unlinkCharacter
TouchesOf(fromCharacterId, linkType, to) ==
  { h \in 1..Len(chain.returned) :
      LET r == chain.returned[h]
      IN  /\ r.ok
          /\ r.op \in {"linkCharacter", "linkCharactersInBatch",
                       "unlinkCharacter"}
          /\ r.fromCharacterId = fromCharacterId
          /\ r.linkType = linkType
          /\ \E i \in 1..Len(r.toCharacterIds) : r.toCharacterIds[i] = to }

\* the last of them was a link
LastWasLink(fromCharacterId, linkType, to) ==
  LET hs == TouchesOf(fromCharacterId, linkType, to)
  IN  /\ hs # {}
      /\ chain.returned[CHOOSE h \in hs : \A g \in hs : g <= h].op
           # "unlinkCharacter"

\* C11: after any sequence of successful link and unlink calls on
\* (from, to) with one link type, getLinkingCharacterIds(from, linkType)
\* contains to exactly when the last of them was a link.
C11_LinkedIffLastWasLink ==
  (call.op = "getLinkingCharacterIds" /\ call.pc = "done") =>
    \A to \in {2, 3} :
      (\E i \in 1..Len(call.result.ids) : call.result.ids[i] = to)
        <=> LastWasLink(call.args.fromCharacterId,
                        padRightToHex(call.args.linkType).bytes, to)

\* C11 witness: after linkCharacter(1, 2, 'follow') and
\* unlinkCharacter(1, 2, 'follow'), getLinkingCharacterIds(1, 'follow')
\* has returned a list without 2.
C11_Witness ==
  /\ call.op = "getLinkingCharacterIds"
  /\ call.pc = "done"
  /\ call.args.linkType = <<102, 111, 108, 108, 111, 119>>
  /\ call.result.ids = <<>>
  /\ Len(chain.returned) = 2
  /\ chain.returned[1].op = "linkCharacter"
  /\ chain.returned[1].ok
  /\ chain.returned[1].toCharacterIds = <<2>>
  /\ chain.returned[2].op = "unlinkCharacter"
  /\ chain.returned[2].ok
  /\ chain.returned[2].toCharacterIds = <<2>>
  /\ chain.returned[2].linkType = chain.returned[1].linkType

\* a lookup of the hash of a transaction has finished
LookedUp ==
  /\ call.op = "getLinklistIdByTransaction"
  /\ call.pc \in {"done", "failed"}
  /\ call.args.hash \in 1..Len(chain.returned)

\* C12: two calls of getLinklistIdByTransaction(h) have the same outcome
\* (the same id, or the same error), and a lookup submits nothing.
C12_LookupIdempotent ==
  /\ LookedUp =>
       LET first == chain.seen[call.args.hash]
       IN  /\ first.pc = call.pc
           /\ first.ids = call.result.ids
           /\ first.error = call.error
  /\ call.op = "getLinklistIdByTransaction" =>
       call.writes = 0 /\ call.sent = NotSent

\* C12 witness: a second lookup of the first hash has returned, after a
\* second transaction was mined.
C12_Witness ==
  /\ LookedUp
  /\ call.args.hash = 1
  /\ Len(receipts) = 2
  /\ chain.seen[1].again
  /\ call.pc = "done"
  /\ call.result.ids = chain.seen[1].ids

\* C13: for a linkCharacter call that returned {data: id,
\* transactionHash: h}, getLinklistIdByTransaction(h) returns id.
C13_LookupAfterLinkCharacter ==
  (/\ LookedUp
   /\ chain.returned[call.args.hash].op = "linkCharacter"
   /\ chain.returned[call.args.hash].ok) =>
    /\ call.pc = "done"
    /\ call.result.ids = <<chain.returned[call.args.hash].linklistId>>

\* C13 witness: the lookup of the hash of the second linkCharacter call,
\* which returned linklist 2, has returned 2.
C13_Witness ==
  /\ LookedUp
  /\ call.args.hash = 2
  /\ chain.returned[2].op = "linkCharacter"
  /\ chain.returned[2].ok
  /\ chain.returned[2].linklistId = 2
  /\ call.pc = "done"
  /\ call.result.ids = <<2>>

\* the other link operations that return a linklist id
OtherLinks ==
  {"linkCharactersInBatch", "createThenLinkCharacter", "linkAddress",
   "linkAnyUri", "linkErc721", "linkNote", "linkLinklist"}

\* a lookup of the hash of one of them, which returned, has finished
LookedUpOther ==
  /\ LookedUp
  /\ chain.returned[call.args.hash].op \in OtherLinks
  /\ chain.returned[call.args.hash].ok

\* C14 (amended): for a link operation of another kind that returned a
\* linklist id with hash h, getLinklistIdByTransaction(h) returns the same
\* id when the receipt holds exactly one LinkCharacter event
\* (createThenLinkCharacter, a batch of one target); it fails with
\* AmbiguousEvent when the receipt holds several (a batch of several
\* targets) and with EventNotFound when it holds none (linkAddress,
\* linkAnyUri, linkNote).
C14_LookupNeedsOneLinkCharacter ==
  LookedUpOther =>
    LET n == CountOf(receipts[call.args.hash].logs, "LinkCharacter")
    IN  /\ n = 1 =>
              /\ call.pc = "done"
              /\ call.result.ids =
                   <<chain.returned[call.args.hash].linklistId>>
        /\ n > 1 => call.pc = "failed" /\ call.error = "AmbiguousEvent"
        /\ n = 0 => call.pc = "failed" /\ call.error = "EventNotFound"

\* C14 (as claimed): for every link operation of another kind that
\* returned a linklist id with hash h, getLinklistIdByTransaction(h)
\* returns the same id.
C14_LookupAfterAnyLink ==
  LookedUpOther =>
    /\ call.pc = "done"
    /\ call.result.ids = <<chain.returned[call.args.hash].linklistId>>

\* C14 witness: the lookup of the hash of a createThenLinkCharacter call
\* has returned the linklist id that call returned.
C14_Witness ==
  /\ LookedUpOther
  /\ chain.returned[call.args.hash].op = "createThenLinkCharacter"
  /\ call.pc = "done"
  /\ call.result.ids = <<chain.returned[call.args.hash].linklistId>>

\* the link operations
LinkOps == OtherLinks \cup {"linkCharacter"}

\* C16: for a fixed (fromCharacterId, linkType), every link operation that
\* returns gives the same linklist id, whatever its targets.
C16_OneLinklistPerType ==
  \A g, h \in 1..Len(chain.returned) :
    LET r == chain.returned[g]
        s == chain.returned[h]
    IN  (/\ r.ok /\ s.ok
         /\ r.op \in LinkOps /\ s.op \in LinkOps
         /\ r.fromCharacterId = s.fromCharacterId
         /\ r.linkType = s.linkType) => r.linklistId = s.linklistId

\* C16 witness: linkCharactersInBatch(1, [3], 'follow') has returned the
\* linklist id that linkCharacter(1, 2, 'follow') returned before it.
C16_Witness ==
  /\ call.op = "linkCharactersInBatch"
  /\ call.pc = "done"
  /\ Len(chain.returned) = 2
  /\ chain.returned[1].op = "linkCharacter"
  /\ chain.returned[1].ok
  /\ chain.returned[1].toCharacterIds = <<2>>
  /\ chain.returned[2].toCharacterIds = <<3>>
  /\ chain.returned[2].linkType = chain.returned[1].linkType
  /\ call.result.ids = <<chain.returned[1].linklistId>>

\* the entry points that fetch
Resolving ==
  \/ ipfs.op = "uriToMetadata"
  \/ ipfs.op = "parseMetadataOrUri" /\ ipfs.isString
                                    /\ ipfs.retrieveMetadataIfNeeded

\* the errors a fetch ends uriToMetadata with
FetchErrors == {"ResolveFailed", "FetchError"}

LinkVariants ==
  {"linkCharacter", "linkAddress", "linkAnyUri", "linkErc721", "linkNote",
   "linkLinklist"}

\* the names of the linking events
LinkEventNames == { LinkEventOf(op) : op \in LinkVariants }

\* the receipt holds one linking event of the operation's own kind and no
\* other linking event
OwnEventOnly(op, logs) ==
  /\ CountOf(logs, LinkEventOf(op)) = 1
  /\ \A i \in 1..Len(logs) :
       logs[i].name \in LinkEventNames => logs[i].name = LinkEventOf(op)

\* C22 (as claimed): every link variant, on a confirmed receipt that holds
\* exactly one linking event of the variant's own kind and no other linking
\* event, returns that event's linklistId with the receipt's hash.
C22_OwnEventMatched ==
  (/\ call.op \in LinkVariants
   /\ Confirmed
   /\ OwnEventOnly(call.op, receipts[call.hash].logs))
    => /\ call.pc = "done"
       /\ call.result.ids =
            <<FirstOf(receipts[call.hash].logs, LinkEventOf(call.op)).id>>
       /\ call.result.hasHash
       /\ call.result.transactionHash = receipts[call.hash].transactionHash

\* the errors of event matching
MatchErrors == {"EventNotFound", "AmbiguousEvent"}

\* the errors of waiting for the receipt
WaitErrors == {"Reverted", "Timeout"}

\* the mutating invocation has failed
WriteFailed == call.pc = "failed" /\ OpOf(call.op).kind = "write"

\* the errors parseLog gives for the calls the method makes on the receipt
ParseErrorsOf(op, logs) ==
  { parseLog(logs, OpOf(op).parses[i],
             OpOf(op).throwOnMultipleLogsFound).err :
      i \in 1..Len(OpOf(op).parses) } \ {"none"}

\* C23: a mutating operation whose submission, confirmation or event
\* matching fails ends with that step's error and no Result, and runs no
\* step after the failing one: a declined submission is not waited for, a
\* failed wait is not matched, and a match error is parseLog's own.
C23_ErrorsPropagate ==
  WriteFailed =>
    /\ call.result = NoResult
    /\ call.error = "SubmissionRejected" <=> (call.writes = 1 /\ call.hash = 0)
    /\ call.error \in WaitErrors <=>
         (call.hash # 0 /\ call.hash \notin 1..Len(receipts))
    /\ call.error \in MatchErrors <=> call.hash \in 1..Len(receipts)
    /\ call.error \in MatchErrors =>
         call.error \in ParseErrorsOf(call.op, receipts[call.hash].logs)
    /\ call.error \in WaitErrors \cup MatchErrors \cup {"SubmissionRejected"}
         => call.writes = 1

\* C23 witness: linkCharacter has failed with Timeout while waiting: its
\* transaction was sent, no receipt was matched and no Result is returned.
C23_Witness ==
  /\ call.op = "linkCharacter"
  /\ call.pc = "failed"
  /\ call.error = "Timeout"
  /\ call.hash = 1
  /\ receipts = <<>>
  /\ call.result = NoResult

\* parseMetadataOrUri has returned
Parsed_ok == ipfs.op = "parseMetadataOrUri" /\ ipfs.pc = "done"

\* C24: when parseMetadataOrUri succeeds, the uri it returns is the input
\* for a string input and the published URI, which begins with ipfs://, for
\* an object input; it is empty only for the empty-string input.
C24_UriNonEmpty ==
  Parsed_ok =>
    /\ ipfs.isString => ipfs.result.uri = ipfs.uri
    /\ ~ipfs.isString => isIpfsUrl(ipfs.result.uri)
    /\ ipfs.result.uri = EmptyUri <=> (ipfs.isString /\ ipfs.uri = EmptyUri)

\* C24 witness: parseMetadataOrUri on an object has returned the ipfs:// URI
\* the store answered with.
C24_Witness ==
  /\ Parsed_ok
  /\ ~ipfs.isString
  /\ ipfs.uploads >= 1
  /\ ipfs.result.uri = Uri("ipfs", "QmTMD6/1.json")

\* parseMetadataOrUri has returned on a metadata object
ParsedObject == Parsed_ok /\ ~ipfs.isString

\* C25: parseMetadataOrUri on a metadata object sets the object's type to
\* the type asked for only when the object has none, publishes it once,
\* after the tagging, so that the uploaded JSON carries the type, fetches
\* nothing and returns the published URI with that object.
C25_ObjectTaggedAndPublished ==
  ParsedObject =>
    /\ ipfs.metadataType =
         IF ipfs.inputType = "absent" THEN ipfs.type ELSE ipfs.inputType
    /\ ipfs.body = ipfs.metadataType
    /\ ipfs.publishes = 1
    /\ ipfs.uploads \in 1..MaxAttempts(ipfs.edition)
    /\ ipfs.fetches = 0
    /\ ipfs.result.metadata = "object"
    /\ isIpfsUrl(ipfs.result.uri)

\* C25 witness: a character object without a type, and a note object passed
\* with type 'character', have been published; the first carries
\* 'character', the second is still a note.
C25_Witness ==
  /\ ParsedObject
  /\ ipfs.type = "character"
  /\ \/ ipfs.inputType = "absent" /\ ipfs.body = "character"
     \/ ipfs.inputType = "note" /\ ipfs.body = "note"
  /\ ipfs.result.metadata = "object"

\* parseMetadataOrUri has returned on a non-empty string
ParsedString == Parsed_ok /\ ipfs.isString /\ ipfs.uri # EmptyUri

\* C26 (as claimed): parseMetadataOrUri on a non-empty string returns it as
\* uri and never uploads; with retrieveMetadataIfNeeded false it makes no
\* network call and returns metadata undefined, with it true it fetches the
\* URI exactly once and returns the fetched metadata.
C26_StringPassedThrough ==
  /\ (ipfs.op = "parseMetadataOrUri" /\ ipfs.isString) => ipfs.uploads = 0
  /\ ParsedString =>
       /\ ipfs.result.uri = ipfs.uri
       /\ ~ipfs.retrieveMetadataIfNeeded =>
            ipfs.fetches = 0 /\ ipfs.result.metadata = "undefined"
       /\ ipfs.retrieveMetadataIfNeeded =>
            ipfs.fetches = 1 /\ ipfs.result.metadata = "object"

\* C27: postNote resolves the metadata or URI first, then submits the
\* transaction with the resolved uri as contentUri, then awaits the
\* receipt, then matches the post-note event and returns its noteId with
\* the receipt's hash; when publishing the metadata fails it submits
\* nothing.
C27_PostNoteOrder ==
  call.op = "postNote" =>
    /\ call.pc = "resolving" => call.writes = 0 /\ call.hash = 0
    /\ ipfs.pc # "done" => call.writes = 0 /\ call.hash = 0
    /\ ipfs.pc = "failed" /\ call.pc = "failed" => call.error = ipfs.error
    /\ call.writes > 0 =>
         /\ call.writes = 1
         /\ ipfs.pc = "done"
         /\ call.contentUri = ipfs.result.uri
    /\ call.hash # 0 => call.writes = 1
    /\ call.pc = "done" =>
         /\ Confirmed
         /\ CountOf(receipts[call.hash].logs, "PostNote") = 1
         /\ call.result.ids =
              <<FirstOf(receipts[call.hash].logs, "PostNote").id>>
         /\ call.result.hasHash
         /\ call.result.transactionHash = receipts[call.hash].transactionHash

\* C27 witness: postNote on a metadata object has returned the noteId and
\* the hash, after publishing the object and sending the published URI as
\* contentUri.
C27_Witness ==
  /\ call.op = "postNote"
  /\ call.pc = "done"
  /\ ~ipfs.isString
  /\ ipfs.uploads >= 1
  /\ call.contentUri = Uri("ipfs", "QmTMD6/1.json")
  /\ call.result.ids = <<7>>
  /\ call.result.hasHash

\* a mutating call has failed at event matching
MatchFailed == WriteFailed /\ call.error \in MatchErrors

\* the linklist of the call's character and link type exists on chain
LinklistMinted ==
  LinklistIdOf(chain.linklists, call.sent.fromCharacterId,
               call.sent.linkType) <= Len(chain.linklists)

C29_GatherKeepsOrder ==
  call.op = "getLinkingCharacters" =>
    /\ call.pc = "gathering" => call.chainCalls = 1 + Len(call.linked)
    /\ (call.pc = "done") =>
         /\ call.result.ids =
              [i \in 1..Len(call.linked) |-> CharacterOf(call.linked[i])]
         /\ Len(call.settled) = Len(call.linked)
    /\ call.error = "ReadFailed" =>
         call.pc = "failed" /\ call.result = NoResult

\* C29 witness: the reads of <<2, 3, 4>> settled last to first and the
\* characters are returned in the order of the ids.
C29_Witness ==
  /\ call.op = "getLinkingCharacters"
  /\ call.pc = "done"
  /\ call.linked = <<2, 3, 4>>
  /\ call.settled = <<3, 2, 1>>
  /\ call.result.ids = <<CharacterOf(2), CharacterOf(3), CharacterOf(4)>>

\* linkCharactersInBatch has made its write call
BatchSent == call.op = "linkCharactersInBatch" /\ call.writes >= 1

\* C30: linkCharactersInBatch called without data sends one nil entry per
\* element of toCharacterIds, whatever the length of toAddresses; data that
\* is supplied is sent unchanged.
C30_BatchDataDefault ==
  BatchSent =>
    /\ ~call.args.hasData =>
         /\ Len(call.sent.data) = Len(call.args.toCharacterIds)
         /\ \A i \in 1..Len(call.sent.data) : call.sent.data[i] = NIL_ADDRESS
    /\ call.args.hasData => call.sent.data = call.args.data

\* C30 witness: a batch of two character ids and one address, called
\* without data, was sent with two nil entries.
C30_Witness ==
  /\ BatchSent
  /\ ~call.args.hasData
  /\ Len(call.args.toCharacterIds) = 2
  /\ Len(call.args.toAddresses) = 1
  /\ call.sent.data = <<NIL_ADDRESS, NIL_ADDRESS>>

====
